---- MODULE Spec2Model ----
(***************************************************************************)
(* A model of schema.py: schema descriptors (Instance, RegEx, Email,      *)
(* Coerce, Check, List, Map, Optional, OptionalString, And, Or), the      *)
(* dispatch of schema literals, and coerce / validate.                    *)
(*                                                                         *)
(* Python values, descriptors and outcomes are records with a fixed set   *)
(* of fields so that any two of them can be compared.                     *)
(***************************************************************************)
EXTENDS Integers, Sequences, FiniteSets, TLC

\* node:  the outcome of the last constructor, dispatch, & or |: the
\*        descriptor the program now holds, or the exception raised
\* op:    the last operation
\* recv:  the descriptor the last operation was called on
\* other: the right-hand side of the last & or |
\* arg:   the data given to the last coerce / validate, or the default
\*        given to the last Optional / OptionalString
\* res:   the outcome of the last coerce / validate / & / |
\* calls: the calls the last And.coerce made to its children
\* appends: how many & and | were applied since the last constructor
VARIABLES node, op, recv, other, arg, res, calls, appends

vars == <<node, op, recv, other, arg, res, calls, appends>>

(***************************************************************************)
(* Bounds of the model.                                                    *)
(***************************************************************************)
\* longest list given to coerce
MaxListLen == 2
\* most children given to And(...) / Or(...)
MaxChildren == 2
\* most & and | applied to what one constructor built
MaxAppends == 1

(***************************************************************************)
(* Python values.  t is the type name, n the number of an int / float /    *)
(* bool, s the text of a str, l the items of a list, m the items of a dict *)
(* as <<key, value>> pairs in key order.                                   *)
(***************************************************************************)
Val(ty, num, str, items, pairs) ==
    [t |-> ty, n |-> num, s |-> str, l |-> items, m |-> pairs]

VInt(n)   == Val("int", n, "", <<>>, <<>>)
VStr(s)   == Val("str", 0, s, <<>>, <<>>)
\* the float 3.14 (n keeps its integer part, what int() makes of it)
VFloat    == Val("float", 3, "3.14", <<>>, <<>>)
VNone     == Val("NoneType", 0, "", <<>>, <<>>)
VBool(b)  == Val("bool", IF b THEN 1 ELSE 0, "", <<>>, <<>>)
VList(l)  == Val("list", 0, "", l, <<>>)
VMap(m)   == Val("dict", 0, "", <<>>, m)

\* class Empty / EMPTY = Empty(): the one instance, compared by identity
EMPTY     == Val("Empty", 0, "", <<>>, <<>>)

\* isinstance(v, ty) for a type ty; bool is a subclass of int, and
\* everything is an object
IsInstance(v, ty) ==
    \/ ty = "object"
    \/ v.t = ty
    \/ ty = "int" /\ v.t = "bool"

\* the truth value of v, as "if v" and "x and y" take it
Truthy(v) ==
    CASE v.t \in {"int", "bool"} -> v.n # 0
      [] v.t = "float"           -> TRUE
      [] v.t = "str"             -> v.s # ""
      [] v.t = "NoneType"        -> FALSE
      [] v.t = "list"            -> v.l # <<>>
      [] v.t = "dict"            -> v.m # <<>>
      [] OTHER                   -> TRUE

(***************************************************************************)
(* Outcomes of a call: a returned value (k = "ok") or the raised           *)
(* exception's class.                                                      *)
(***************************************************************************)
Ok(v)     == [k |-> "ok", v |-> v]
Raise(e)  == [k |-> e, v |-> VNone]

(***************************************************************************)
(* Schema literals and descriptors.  cls is the descriptor's class, or,    *)
(* for a literal that is no descriptor, "type" (a class such as int),      *)
(* "list" ([...]), "dict" ({...}), "function" (a callable) or "other"      *)
(* (anything else, e.g. the number 42).  ty is the type of an Instance or  *)
(* a type literal, fn the name of a callable or the pattern of a RegEx,    *)
(* fl the flags of a RegEx, ch the children (And.schemas, Or.schemas, the  *)
(* one schema of a List or an Optional, the values of a dict), keys the    *)
(* keys of a dict in iteration order, dflt the default of an Optional.     *)
(***************************************************************************)
Desc(c, t, f, g, s, ks, d) ==
    [cls |-> c, ty |-> t, fn |-> f, fl |-> g, ch |-> s, keys |-> ks,
     dflt |-> d]

\* literals
TypeLit(ty)       == Desc("type", ty, "", 0, <<>>, <<>>, VNone)
ListLit(ch)       == Desc("list", "", "", 0, ch, <<>>, VNone)
DictLit(keys, ch) == Desc("dict", "", "", 0, ch, keys, VNone)
FunLit(fn)        == Desc("function", "", fn, 0, <<>>, <<>>, VNone)
OtherLit          == Desc("other", "", "", 0, <<>>, <<>>, VNone)

DescriptorClasses ==
    {"Instance", "RegEx", "Email", "Coerce", "Check", "List", "Map",
     "Optional", "OptionalString", "And", "Or"}

\* isinstance(schema, SchemaDescriptor)
IsDescriptor(schema) == schema.cls \in DescriptorClasses

\* outcome of a constructor or of dispatch: the descriptor, or the
\* exception raised
OkD(d)    == [k |-> "ok", d |-> d]
RaiseD(e) == [k |-> e, d |-> OtherLit]

(***************************************************************************)
(* The callables handed to Coerce and Check, and the pattern engine.       *)
(***************************************************************************)
\* int(v): the builtin, as a converter
IntOf(v) ==
    CASE v.t \in {"int", "bool", "float"} -> Ok(VInt(v.n))
      [] v.t = "str" ->
            CASE v.s = "5"  -> Ok(VInt(5))
              [] v.s = "-5" -> Ok(VInt(0 - 5))
              [] OTHER      -> Raise("ValueError")
      [] OTHER -> Raise("TypeError")

\* lambda x: x > 0, with the mixed-type ordering of the interpreter:
\* None is below every number and every number below any other object
IsPositive(v) ==
    CASE v.t \in {"int", "bool", "float"} -> Ok(VBool(v.n > 0))
      [] v.t = "NoneType"                 -> Ok(VBool(FALSE))
      [] OTHER                            -> Ok(VBool(TRUE))

\* self.schema(data)
Call(fn, v) ==
    CASE fn = "int"         -> IntOf(v)
      [] fn = "is_positive" -> IsPositive(v)

EmailPattern == "^[-0-9a-zA-Z.+_]+@[-0-9a-zA-Z.+_]+\\.[a-zA-Z]+$"
WordPattern  == "^[a-z]+$"
IGNORECASE   == 2

\* re.search(pattern, data, flags) for a str data: is there a match
Search(pattern, flags, s) ==
    CASE pattern = EmailPattern -> s = "a@b.co"
      [] pattern = WordPattern  ->
            s = "abc" \/ (flags = IGNORECASE /\ s = "ABC")

(***************************************************************************)
(* Constructors and dispatch.                                              *)
(***************************************************************************)
RECURSIVE dispatch(_)
RECURSIVE NewList(_)

\* SchemaDescriptor.__init__ with typ = type
NewInstance(schema) ==
    IF schema.cls # "type" THEN RaiseD("TypeError")
    ELSE OkD(Desc("Instance", schema.ty, "", 0, <<>>, <<>>, VNone))

NewRegEx(pattern, flags) ==
    OkD(Desc("RegEx", "", pattern, flags, <<>>, <<>>, VNone))

NewEmail == OkD(Desc("Email", "", EmailPattern, 0, <<>>, <<>>, VNone))

\* callable(schema)
Callable(schema) == schema.cls \in {"function", "type"}

\* the callable a Coerce or a Check keeps: a function, or a class such as int
CallableName(schema) == IF schema.cls = "type" THEN schema.ty ELSE schema.fn

NewCoerce(schema) ==
    IF ~Callable(schema) THEN RaiseD("TypeError")
    ELSE OkD(Desc("Coerce", "", CallableName(schema), 0, <<>>, <<>>, VNone))

NewCheck(schema) ==
    IF ~Callable(schema) THEN RaiseD("TypeError")
    ELSE OkD(Desc("Check", "", CallableName(schema), 0, <<>>, <<>>, VNone))

NewAnd(schemas) == OkD(Desc("And", "", "", 0, schemas, <<>>, VNone))

NewOr(schemas) == OkD(Desc("Or", "", "", 0, schemas, <<>>, VNone))

NewMap(schema) ==
    IF schema.cls # "dict" THEN RaiseD("TypeError")
    ELSE OkD(Desc("Map", "", "", 0, schema.ch, schema.keys, VNone))

NewList(schema) ==
    IF schema.cls # "list" THEN RaiseD("TypeError")
    ELSE IF Len(schema.ch) # 1 THEN RaiseD("TypeError")
    ELSE LET child == dispatch(schema.ch[1])
         IN  IF child.k # "ok" THEN child
             ELSE OkD(Desc("List", "", "", 0, <<child.d>>, <<>>, VNone))

dispatch(schema) ==
    IF IsDescriptor(schema) THEN OkD(schema)
    ELSE IF schema.cls = "list" THEN NewList(schema)
    ELSE IF schema.cls = "dict" THEN NewMap(schema)
    ELSE IF schema.cls = "type" THEN NewInstance(schema)
    ELSE RaiseD("TypeError")

(***************************************************************************)
(* coerce and validate.                                                    *)
(***************************************************************************)
\* the keys a dict may have, in the order a dict value lists them
AllKeys == <<"a", "b", "c">>

\* data.keys() as a set
KeySet(data) == {data.m[i][1] : i \in 1..Len(data.m)}

\* data.get(key, dflt)
Get(data, key, dflt) ==
    IF key \in KeySet(data)
    THEN LET i == CHOOSE j \in 1..Len(data.m) : data.m[j][1] = key
         IN  data.m[i][2]
    ELSE dflt

\* the dict holding the <<key, value>> pairs of a set with one pair a key
DictOf(pairs) ==
    LET has(k) == \E p \in pairs : p[1] = k
        ks     == SelectSeq(AllKeys, has)
    IN  VMap([i \in 1..Len(ks) |->
                 <<ks[i], (CHOOSE p \in pairs : p[1] = ks[i])[2]>>])

\* one call of a child's coerce: the child's position, what it was given
\* and its outcome
CallRec(pos, given, outcome) == [i |-> pos, input |-> given, out |-> outcome]

RECURSIVE coerce(_, _)
RECURSIVE AndCalls(_, _, _)
RECURSIVE OrLoop(_, _, _)
RECURSIVE ListLoop(_, _, _, _)
RECURSIVE MapLoop(_, _, _, _, _)

InstanceCoerce(self, data) ==
    IF IsInstance(data, self.ty) THEN Ok(data) ELSE Raise("ValueError")

\* RegEx.coerce, which Email inherits; re.search raises TypeError on
\* anything that is no string
RegExCoerce(self, data) ==
    IF data.t # "str" THEN Raise("ValueError")
    ELSE IF Search(self.fn, self.fl, data.s) THEN Ok(data)
    ELSE Raise("ValueError")

CoerceCoerce(self, data) == Call(self.fn, data)

CheckCoerce(self, data) ==
    LET r == Call(self.fn, data)
    IN  IF r.k # "ok" THEN r
        ELSE IF Truthy(r.v) THEN Ok(data)
        ELSE Raise("ValueError")

\* And.coerce as independent checks: every child is given the input
RECURSIVE AndCallsUnchained(_, _, _)
AndCallsUnchained(schemas, i, data) ==
    IF i > Len(schemas) THEN <<>>
    ELSE LET r == coerce(schemas[i], data)
         IN  IF r.k # "ok" THEN <<CallRec(i, data, r)>>
             ELSE <<CallRec(i, data, r)>>
                  \o AndCallsUnchained(schemas, i + 1, data)

\* the calls And.coerce makes from child i on, in order: each child is
\* given the data the one before returned, and the loop ends with the
\* first child that raises
AndCalls(schemas, i, data) ==
    IF i > Len(schemas) THEN <<>>
    ELSE LET r == coerce(schemas[i], data)
         IN  IF r.k # "ok" THEN <<CallRec(i, data, r)>>
             ELSE <<CallRec(i, data, r)>> \o AndCalls(schemas, i + 1, r.v)

AndCoerce(self, data) ==
    LET cs == AndCalls(self.ch, 1, data)
    IN  IF cs = <<>> THEN Ok(data) ELSE cs[Len(cs)].out

\* Or.coerce from child i on; the end of the loop is the end of the
\* method, which then returns None
OrLoop(schemas, i, data) ==
    IF i > Len(schemas) THEN Ok(VNone)
    ELSE LET r == coerce(schemas[i], data)
         IN  IF r.k = "ValueError" THEN OrLoop(schemas, i + 1, data)
             ELSE r

OrCoerce(self, data) == OrLoop(self.ch, 1, data)

\* List.coerce dropping the items the child rejects
RECURSIVE ListLoopSkip(_, _, _, _)
ListLoopSkip(schema, items, i, new) ==
    IF i > Len(items) THEN Ok(VList(new))
    ELSE LET r == coerce(schema, items[i])
         IN  IF r.k # "ok" THEN ListLoopSkip(schema, items, i + 1, new)
             ELSE ListLoopSkip(schema, items, i + 1, Append(new, r.v))

\* the loop of List.coerce from item i on, new holding the items done
ListLoop(schema, items, i, new) ==
    IF i > Len(items) THEN Ok(VList(new))
    ELSE LET r == coerce(schema, items[i])
         IN  IF r.k # "ok" THEN r
             ELSE ListLoop(schema, items, i + 1, Append(new, r.v))

ListCoerce(self, data) ==
    IF data.t # "list" THEN Raise("ValueError")
    ELSE ListLoop(self.ch[1], data.l, 1, <<>>)

\* the loop of Map.coerce from the i-th item of self.schema on, and what
\* follows the loop
MapLoop(self, data, i, new, keys) ==
    IF i > Len(self.keys)
    THEN IF keys # {} THEN Raise("ValueError") ELSE Ok(DictOf(new))
    ELSE LET key    == self.keys[i]
             val    == Get(data, key, EMPTY)
             schema == dispatch(self.ch[i])
             r      == coerce(schema.d, val)
         IN  IF schema.k # "ok" THEN Raise(schema.k)
             ELSE IF r.k # "ok" THEN r
             ELSE IF key \notin keys THEN Raise("KeyError")
             ELSE MapLoop(self, data, i + 1,
                          new \cup {<<key, r.v>>}, keys \ {key})

MapCoerce(self, data) ==
    IF data.t # "dict" THEN Raise("ValueError")
    ELSE MapLoop(self, data, 1, {}, KeySet(data))

OptionalCoerce(self, data) ==
    IF data = EMPTY THEN Ok(self.dflt) ELSE coerce(self.ch[1], data)

OptionalStringCoerce(self, data) ==
    IF data = VStr("") \/ data = EMPTY THEN Ok(self.dflt)
    ELSE coerce(self.ch[1], data)

\* self.coerce(data); what is no descriptor has no coerce attribute
coerce(self, data) ==
    CASE self.cls = "Instance"        -> InstanceCoerce(self, data)
      [] self.cls \in {"RegEx", "Email"} -> RegExCoerce(self, data)
      [] self.cls = "Coerce"          -> CoerceCoerce(self, data)
      [] self.cls = "Check"           -> CheckCoerce(self, data)
      [] self.cls = "And"             -> AndCoerce(self, data)
      [] self.cls = "Or"              -> OrCoerce(self, data)
      [] self.cls = "List"            -> ListCoerce(self, data)
      [] self.cls = "Map"             -> MapCoerce(self, data)
      [] self.cls = "Optional"        -> OptionalCoerce(self, data)
      [] self.cls = "OptionalString"  -> OptionalStringCoerce(self, data)
      [] OTHER                        -> Raise("AttributeError")

validate(self, data) ==
    LET r == coerce(self, data)
    IN  IF r.k = "ValueError" THEN Ok(VBool(FALSE))
        ELSE IF r.k = "ok" THEN Ok(VBool(TRUE))
        ELSE r

\* isinstance(v, schema): a class is asked directly, a descriptor through
\* __instancecheck__, and anything else is no class
InstanceCheck(v, schema) ==
    IF schema.cls = "type" THEN Ok(VBool(IsInstance(v, schema.ty)))
    ELSE IF IsDescriptor(schema) THEN validate(schema, v)
    ELSE Raise("TypeError")

NewOptional(schema, default) ==
    LET chk   == IF Truthy(default) THEN InstanceCheck(default, schema)
                 ELSE Ok(VBool(TRUE))
        child == dispatch(schema)
    IN  IF chk.k # "ok" THEN RaiseD(chk.k)
        ELSE IF ~Truthy(chk.v) THEN RaiseD("ValueError")
        ELSE IF child.k # "ok" THEN child
        ELSE OkD(Desc("Optional", "", "", 0, <<child.d>>, <<>>, default))

\* no value has an attribute _OptionalString__class, which is what
\* default.__class.__ reads first
HasMangledClass(default) == FALSE

NewOptionalString(default) ==
    IF Truthy(default) /\ ~IsInstance(default, "str")
    THEN RaiseD("ValueError")
    ELSE IF ~HasMangledClass(default) THEN RaiseD("AttributeError")
    ELSE LET child == dispatch(TypeLit(default.t))
         IN  IF child.k # "ok" THEN child
             ELSE OkD(Desc("OptionalString", "", "", 0, <<child.d>>, <<>>,
                           default))

(***************************************************************************)
(* The inputs the operations are tried on.                                 *)
(***************************************************************************)
\* sequences over S no longer than n
SeqsUpTo(S, n) == UNION {[1..k -> S] : k \in 0..n}

Atoms ==
    {VInt(0), VInt(5), VInt(0 - 5), VStr(""), VStr("5"), VStr("-5"),
     VStr("abc"), VStr("ABC"), VStr("a@b.co"), VFloat, VNone, EMPTY}

Items == {VInt(5), VStr("5"), VStr("abc")}

Lists == {VList(l) : l \in SeqsUpTo(Items, MaxListLen)}

\* dicts over the keys a, b, c
Dicts ==
    {DictOf({<<k, f[k]>> : k \in DOMAIN f}) :
        f \in {g \in UNION {[ks -> {VInt(5), VStr("abc")}] :
                              ks \in SUBSET {"a", "b", "c"}} :
                  "c" \in DOMAIN g => g["c"] = VInt(5)}}

Data == Atoms \cup Lists \cup Dicts

Defaults == {VNone, VInt(0), VInt(5), VStr(""), VStr("abc")}

TInt    == TypeLit("int")
TStr    == TypeLit("str")
TObject == TypeLit("object")

IsPositiveFn == FunLit("is_positive")

\* the children And is built from
AndPool ==
    {NewInstance(TStr).d, NewCoerce(TInt).d, NewCheck(IsPositiveFn).d,
     NewOr(<<NewInstance(TInt).d>>).d}

\* the children Or is built from
OrPool == {NewInstance(TInt).d, NewInstance(TStr).d, NewCheck(IsPositiveFn).d}

\* the right-hand sides of & and |
Operands == {NewCheck(IsPositiveFn).d}

\* the values of the dict literals given to Map
MapSchemas ==
    {TInt, TStr, TObject, ListLit(<<TInt>>), OtherLit,
     NewOptional(TInt, VInt(0)).d, NewOr(<<NewInstance(TInt).d>>).d}

KeyOrders == {<<>>, <<"a">>, <<"b">>, <<"a", "b">>, <<"b", "a">>}

DictLits ==
    {DictLit(ks, ch) : <<ks, ch>> \in
        {<<ks, ch>> \in KeyOrders \X SeqsUpTo(MapSchemas, 2) : Len(ks) = Len(ch)}}

ListLits ==
    {ListLit(ch) : ch \in SeqsUpTo({TInt, OtherLit, ListLit(<<TInt>>),
                                    NewCoerce(TInt).d,
                                    NewOr(<<NewInstance(TInt).d>>).d}, 1)}
    \cup {ListLit(<<TInt, TStr>>)}

\* what dispatch is tried on
Literals ==
    {TInt, TStr, TObject, OtherLit, IsPositiveFn} \cup AndPool
    \cup ListLits \cup {d \in DictLits : Len(d.keys) <= 1}

NoValue == Raise("none")

(***************************************************************************)
(* The operations.                                                         *)
(***************************************************************************)
Init ==
    /\ node = RaiseD("none")
    /\ op = "init"
    /\ recv = OtherLit
    /\ other = OtherLit
    /\ arg = VNone
    /\ res = NoValue
    /\ calls = <<>>
    /\ appends = 0

\* the program's first step: a constructor (or dispatch) is called and
\* returns the descriptor the later steps use, or raises
Built(name, outcome, default) ==
    /\ op = "init"
    /\ node' = outcome
    /\ op' = name
    /\ recv' = OtherLit
    /\ other' = OtherLit
    /\ arg' = default
    /\ res' = NoValue
    /\ calls' = <<>>
    /\ appends' = 0

Dispatch == \E schema \in Literals : Built("dispatch", dispatch(schema), VNone)

MakeInstance == \E schema \in {TInt, TStr, TObject, OtherLit} :
    Built("Instance", NewInstance(schema), VNone)

MakeRegEx == \E flags \in {0, IGNORECASE} :
    Built("RegEx", NewRegEx(WordPattern, flags), VNone)

MakeEmail == Built("Email", NewEmail, VNone)

MakeCoerce == \E schema \in {TInt, OtherLit} :
    Built("Coerce", NewCoerce(schema), VNone)

MakeCheck == \E schema \in {IsPositiveFn, OtherLit} :
    Built("Check", NewCheck(schema), VNone)

MakeList == \E schema \in ListLits \cup {TInt} :
    Built("List", NewList(schema), VNone)

MakeMap == \E schema \in DictLits \cup {TInt} :
    Built("Map", NewMap(schema), VNone)

MakeOptional ==
    \E schema \in {TInt, TStr, ListLit(<<TInt>>), OtherLit, NewInstance(TInt).d} :
        \E default \in Defaults :
            Built("Optional", NewOptional(schema, default), default)

MakeOptionalString == \E default \in Defaults :
    Built("OptionalString", NewOptionalString(default), default)

MakeAnd == \E schemas \in SeqsUpTo(AndPool, MaxChildren) :
    Built("And", NewAnd(schemas), VNone)

MakeOr == \E schemas \in SeqsUpTo(OrPool, MaxChildren) :
    Built("Or", NewOr(schemas), VNone)

\* a descriptor was built and no coerce / validate has been made on it.
\* Neither call changes the descriptor, so a behaviour ends with one call:
\* a second call would start from the same descriptor
Ready == node.k = "ok" /\ op \notin {"init", "coerce", "validate"}

\* node.coerce(data)
Coerce == \E data \in Data :
    /\ Ready
    /\ op' = "coerce"
    /\ recv' = node.d
    /\ arg' = data
    /\ res' = coerce(node.d, data)
    /\ calls' = IF node.d.cls = "And" THEN AndCalls(node.d.ch, 1, data)
                ELSE <<>>
    /\ UNCHANGED <<node, other, appends>>

\* node.validate(data)
Validate == \E data \in Data :
    /\ Ready
    /\ op' = "validate"
    /\ recv' = node.d
    /\ arg' = data
    /\ res' = validate(node.d, data)
    /\ calls' = <<>>
    /\ UNCHANGED <<node, other, appends>>

\* self.schemas.append(other): self.schemas is the tuple of the
\* constructor's arguments, and a tuple has no append
TupleAppend(schemas, x) == Raise("AttributeError")

\* node = node & x.  And.__and__ appends to self.schemas and returns self;
\* any other descriptor returns And(self, x)
Amp == \E x \in Operands :
    /\ Ready
    /\ IsDescriptor(node.d)
    /\ appends < MaxAppends
    /\ appends' = appends + 1
    /\ op' = "and"
    /\ recv' = node.d
    /\ other' = x
    /\ arg' = VNone
    /\ calls' = <<>>
    /\ IF node.d.cls = "And"
       THEN /\ res' = TupleAppend(node.d.ch, x)
            /\ node' = node
       ELSE /\ res' = Ok(VNone)
            /\ node' = NewAnd(<<node.d, x>>)

\* node = node | x, likewise
Pipe == \E x \in Operands :
    /\ Ready
    /\ IsDescriptor(node.d)
    /\ appends < MaxAppends
    /\ appends' = appends + 1
    /\ op' = "or"
    /\ recv' = node.d
    /\ other' = x
    /\ arg' = VNone
    /\ calls' = <<>>
    /\ IF node.d.cls = "Or"
       THEN /\ res' = TupleAppend(node.d.ch, x)
            /\ node' = node
       ELSE /\ res' = Ok(VNone)
            /\ node' = NewOr(<<node.d, x>>)

Next ==
    \/ Dispatch
    \/ MakeInstance
    \/ MakeRegEx
    \/ MakeEmail
    \/ MakeCoerce
    \/ MakeCheck
    \/ MakeList
    \/ MakeMap
    \/ MakeOptional
    \/ MakeOptionalString
    \/ MakeAnd
    \/ MakeOr
    \/ Coerce
    \/ Validate
    \/ Amp
    \/ Pipe

Spec == Init /\ [][Next]_vars

(***************************************************************************)
(* Properties.                                                             *)
(***************************************************************************)
RECURSIVE Contains(_, _)
\* a descriptor of one of the classes C occurs in the schema
Contains(schema, C) ==
    \/ schema.cls \in C
    \/ \E i \in 1..Len(schema.ch) : Contains(schema.ch[i], C)

RECURSIVE WellFormed(_)
\* the schema is built the way the constructors expect: every literal in
\* it dispatches, and the children of And and Or are descriptors
WellFormed(schema) ==
    /\ dispatch(schema).k = "ok"
    /\ schema.cls \in {"And", "Or"} =>
          \A i \in 1..Len(schema.ch) : IsDescriptor(schema.ch[i])
    /\ \A i \in 1..Len(schema.ch) : WellFormed(schema.ch[i])

\* the data holds the EMPTY marker, which no caller's data does
HasEmpty(v) ==
    \/ v = EMPTY
    \/ \E i \in 1..Len(v.l) : v.l[i] = EMPTY
    \/ \E i \in 1..Len(v.m) : v.m[i][2] = EMPTY

\* the keys a Map declares
Declared(self) == {self.keys[i] : i \in 1..Len(self.keys)}

\* the descriptor Map.coerce uses for its i-th key
ChildOf(self, i) == dispatch(self.ch[i]).d

\* C1: validate returns True exactly when coerce returns a value and False
\* when coerce fails; no failure of the data escapes validate as an
\* exception.  Stated for well-formed schemas without user callables,
\* Optional or Or, where every failure of coerce is a failure of the data.
C1_ValidateNeverRaises ==
    (/\ op = "validate"
     /\ WellFormed(recv)
     /\ ~Contains(recv, {"Coerce", "Check", "Optional", "Or"}))
    => /\ res.k = "ok"
       /\ res.v = VBool(TRUE) <=> coerce(recv, arg).k = "ok"

\* C2: Map is closed and mandatory: coerce succeeds only if the input's
\* keys are the declared keys; an input that lacks a declared key whose
\* schema is no Optional, or that has an undeclared key, fails with the
\* validation failure (ValueError); an input with exactly the declared
\* keys and conforming values yields the dict of the coerced values.
C2_MapClosedMandatory ==
    (/\ op = "coerce"
     /\ recv.cls = "Map"
     /\ WellFormed(recv)
     /\ ~Contains(recv, {"Coerce", "Check"})
     /\ arg.t = "dict")
    => LET n       == Len(recv.keys)
           missing == {i \in 1..n : recv.keys[i] \notin KeySet(arg)}
           out(i)  == coerce(ChildOf(recv, i), Get(arg, recv.keys[i], EMPTY))
       IN  /\ res.k = "ok" => KeySet(arg) = Declared(recv)
           /\ (\E i \in missing : ChildOf(recv, i).cls # "Optional")
                 => res.k = "ValueError"
           /\ KeySet(arg) \ Declared(recv) # {} => res.k = "ValueError"
           /\ (KeySet(arg) = Declared(recv) /\ \A i \in 1..n : out(i).k = "ok")
                 => res = Ok(DictOf({<<recv.keys[i], out(i).v>> : i \in 1..n}))

\* C3: when every child of an Or fails on the input, Or.coerce fails with
\* the validation failure (ValueError) instead of returning a value.
C3_OrAllFailRaises ==
    (/\ op = "coerce"
     /\ recv.cls = "Or"
     /\ Len(recv.ch) >= 1
     /\ \A i \in 1..Len(recv.ch) : coerce(recv.ch[i], arg).k = "ValueError")
    => res.k = "ValueError"

\* C4: a declared key whose schema is an Optional may be absent: with all
\* other declared keys conforming and no extra keys, Map.coerce succeeds
\* and binds the absent key to the Optional's default.
C4_OptionalKeyMayBeAbsent ==
    LET n       == Len(recv.keys)
        missing == {i \in 1..n : recv.keys[i] \notin KeySet(arg)}
        present == (1..n) \ missing
    IN  (/\ op = "coerce"
         /\ recv.cls = "Map"
         /\ WellFormed(recv)
         /\ arg.t = "dict"
         /\ KeySet(arg) \subseteq Declared(recv)
         /\ missing # {}
         /\ \A i \in missing : ChildOf(recv, i).cls = "Optional"
         /\ \A i \in present :
               coerce(ChildOf(recv, i), Get(arg, recv.keys[i], EMPTY)).k = "ok")
        => /\ res.k = "ok"
           /\ \A i \in missing :
                 Get(res.v, recv.keys[i], EMPTY) = ChildOf(recv, i).dflt

\* C5: node & x on an And node, and node | x on an Or node, return the
\* same node with x appended as its last child.
C5_AppendExtendsInPlace ==
    /\ (op = "and" /\ recv.cls = "And")
          => res.k = "ok" /\ node = NewAnd(Append(recv.ch, other))
    /\ (op = "or" /\ recv.cls = "Or")
          => res.k = "ok" /\ node = NewOr(Append(recv.ch, other))

\* C6: every Optional that was constructed with a default other than None
\* has a default its child accepts.
C6_DefaultSatisfiesSchema ==
    (op = "Optional" /\ node.k = "ok" /\ node.d.dflt # VNone)
    => coerce(node.d.ch[1], node.d.dflt).k = "ok"

\* C7: OptionalString with a string default d can be built; it returns d
\* for EMPTY and for "", any other string as it is, and fails with the
\* validation failure on data that is no string.
C7_OptionalStringBuilds ==
    (op = "OptionalString" /\ IsInstance(arg, "str"))
    => /\ node.k = "ok"
       /\ coerce(node.d, EMPTY) = Ok(arg)
       /\ coerce(node.d, VStr("")) = Ok(arg)
       /\ coerce(node.d, VStr("abc")) = Ok(VStr("abc"))
       /\ coerce(node.d, VInt(5)).k = "ValueError"

\* C8: And.coerce is an ordered pipeline: the children are called in
\* order, the first with the input and each next one with the value the
\* one before returned; a child that fails is the last one called and its
\* failure is the outcome; otherwise every child is called and the outcome
\* is the last child's value.
C8_AndIsPipeline ==
    (op = "coerce" /\ recv.cls = "And")
    => LET n == Len(recv.ch)
           c == Len(calls)
       IN  /\ c <= n
           /\ \A j \in 1..c :
                 /\ calls[j].i = j
                 /\ calls[j].input = IF j = 1 THEN arg ELSE calls[j - 1].out.v
                 /\ calls[j].out = coerce(recv.ch[j], calls[j].input)
                 /\ j < c => calls[j].out.k = "ok"
           /\ IF \A j \in 1..c : calls[j].out.k = "ok"
              THEN c = n /\ res = IF n = 0 THEN Ok(arg) ELSE calls[n].out
              ELSE res = calls[c].out

\* C8 witness: a two-stage pipeline whose first child converted the input
\* and whose second child then rejected the converted value
C8_Witness ==
    /\ op = "coerce"
    /\ recv.cls = "And"
    /\ Len(recv.ch) = 2
    /\ Len(calls) = 2
    /\ calls[2].input # arg
    /\ res.k = "ValueError"

C10_CoerceIdempotent ==
    (/\ op = "coerce"
     /\ WellFormed(recv)
     /\ ~Contains(recv, {"Coerce"})
     /\ ~HasEmpty(arg)
     /\ res.k = "ok")
    => coerce(recv, res.v) = Ok(res.v)

====
